---- MODULE Spec2Model ----
(***************************************************************************)
(* Buscar_pedagio.py: a batch of fiscal codes is resolved to route metrics *)
(* by three chained HTTP lookups (IBGE, Google Geocoding, Google Routes),  *)
(* run by a ThreadPoolExecutor and gathered with as_completed.             *)
(*                                                                         *)
(* Python values are tagged records [kind, val]; a Python str is a         *)
(* sequence of one-character strings, a dict a function from keys, a list  *)
(* a sequence.  The evaluation of an expression is an outcome [exc, val]:  *)
(* exc = "none" and the value, or the class name of the exception raised.  *)
(***************************************************************************)
EXTENDS Integers, Sequences, FiniteSets, TLC

\* ---------------------------------------------------------------- bounds
\* Longest input text (in characters) of the single-item specification.
MaxLen == 5
\* Longest input list of the batch specification.
NumItems == 3
\* Size of the worker pool.  The source sets 20 (line 18); the model scales
\* it down so that a batch of NumItems saturates the pool.
MAX_WORKERS == 2

\* ------------------------------------------------------- Python values
None == [kind |-> "none"]
PyNum(n) == [kind |-> "num", val |-> n]
PyStr(s) == [kind |-> "str", val |-> s]
PyList(s) == [kind |-> "list", val |-> s]
PyDict(f) == [kind |-> "dict", val |-> f]
EmptyDict == PyDict(<<>>)

Ok(v) == [exc |-> "none", val |-> v]
Raise(e) == [exc |-> e, val |-> None]

\* bool(v): None, 0, "", [] and {} are falsy.
Truthy(v) ==
    CASE v.kind = "none" -> FALSE
      [] v.kind = "num" -> v.val # 0
      [] v.kind = "str" -> v.val # <<>>
      [] v.kind = "list" -> v.val # <<>>
      [] v.kind = "dict" -> DOMAIN v.val # {}

\* v.get(k, default): only a dict has the method.
PyGet(v, k, default) ==
    IF v.kind # "dict" THEN Raise("AttributeError")
    ELSE IF k \in DOMAIN v.val THEN Ok(v.val[k]) ELSE Ok(default)

\* the same on the outcome of a sub-expression
GetE(r, k, default) == IF r.exc # "none" THEN r ELSE PyGet(r.val, k, default)

\* v[k] with a string key
PyItem(v, k) ==
    IF v.kind = "dict"
    THEN IF k \in DOMAIN v.val THEN Ok(v.val[k]) ELSE Raise("KeyError")
    ELSE Raise("TypeError")

ItemE(r, k) == IF r.exc # "none" THEN r ELSE PyItem(r.val, k)

\* v[0]
PyFirst(v) ==
    CASE v.kind = "list" -> IF v.val = <<>> THEN Raise("IndexError") ELSE Ok(v.val[1])
      [] v.kind = "str" -> IF v.val = <<>> THEN Raise("IndexError") ELSE Ok(PyStr(<<v.val[1]>>))
      [] v.kind = "dict" -> Raise("KeyError")
      [] OTHER -> Raise("TypeError")

FirstE(r) == IF r.exc # "none" THEN r ELSE PyFirst(r.val)

\* exception classes: requests.exceptions.JSONDecodeError (requests >= 2.27)
\* derives from both RequestException and json.JSONDecodeError.
IsRequestException(e) ==
    e \in {"ConnectionError", "HTTPError", "RequestsJSONDecodeError"}
IsJSONDecodeError(e) == e \in {"JSONDecodeError", "RequestsJSONDecodeError"}

\* ------------------------------------------------------------- strings
Digits == {"0", "1", "2", "3", "4", "5", "6", "7", "8", "9"}
DigitVal(c) ==
    CASE c = "0" -> 0 [] c = "1" -> 1 [] c = "2" -> 2 [] c = "3" -> 3 [] c = "4" -> 4
      [] c = "5" -> 5 [] c = "6" -> 6 [] c = "7" -> 7 [] c = "8" -> 8 [] c = "9" -> 9

RECURSIVE DecimalVal(_)
DecimalVal(s) ==
    IF s = <<>> THEN 0
    ELSE 10 * DecimalVal(SubSeq(s, 1, Len(s) - 1)) + DigitVal(s[Len(s)])

IsDecimal(s) == s # <<>> /\ \A i \in 1..Len(s) : s[i] \in Digits

\* s.replace(pat, ""): every non-overlapping occurrence, left to right
RECURSIVE Remove(_, _)
Remove(s, pat) ==
    IF Len(s) < Len(pat) THEN s
    ELSE IF SubSeq(s, 1, Len(pat)) = pat
         THEN Remove(SubSeq(s, Len(pat) + 1, Len(s)), pat)
         ELSE <<Head(s)>> \o Remove(Tail(s), pat)

\* s.strip(): leading and trailing whitespace dropped
RECURSIVE LStrip(_)
LStrip(s) == IF s # <<>> /\ Head(s) = " " THEN LStrip(Tail(s)) ELSE s
RECURSIVE RStrip(_)
RStrip(s) ==
    IF s # <<>> /\ s[Len(s)] = " " THEN RStrip(SubSeq(s, 1, Len(s) - 1)) ELSE s
Strip(s) == RStrip(LStrip(s))

\* length of the leading run of non-blank characters
RECURSIVE WordLen(_)
WordLen(s) == IF s = <<>> \/ Head(s) = " " THEN 0 ELSE 1 + WordLen(Tail(s))

\* s.split(): the maximal runs of non-blank characters
RECURSIVE Split(_)
Split(s) ==
    IF s = <<>> THEN <<>>
    ELSE IF Head(s) = " " THEN Split(Tail(s))
    ELSE <<SubSeq(s, 1, WordLen(s))>> \o Split(SubSeq(s, WordLen(s) + 1, Len(s)))

\* decimal digits of a natural number, as str(n) writes them
RECURSIVE NumStr(_)
NumStr(n) ==
    LET d == <<"0", "1", "2", "3", "4", "5", "6", "7", "8", "9">>[(n % 10) + 1]
    IN IF n < 10 THEN <<d>> ELSE NumStr(n \div 10) \o <<d>>

\* what an f-string writes for a value
Str(v) ==
    CASE v.kind = "str" -> v.val
      [] v.kind = "num" -> NumStr(v.val)
      [] OTHER -> <<"?">>

\* a float is kept in hundredths: 12.35 is PyFloat(1235)
PyFloat(h) == [kind |-> "float", val |-> h]
PyTuple(s) == [kind |-> "tuple", val |-> s]

\* ------------------------------------------------------ HTTP responses
\* What one request meets: no response at all (connection error, timeout),
\* or a response with a status and a body.  A body is a JSON value or text
\* that json() rejects; val then names the class json() raises, which is
\* requests.exceptions.JSONDecodeError from requests 2.27 on and the
\* standard library's json.JSONDecodeError before.
RequestFailed == [kind |-> "failed"]
Http(status, body) == [kind |-> "http", status |-> status, body |-> body]
Unparseable(cls) == [kind |-> "unparseable", val |-> cls]

\* session.get / session.post, raise_for_status() and json()
Fetch(resp) ==
    IF resp.kind = "failed" THEN Raise("ConnectionError")
    ELSE IF resp.status >= 400 THEN Raise("HTTPError")
    ELSE IF resp.body.kind = "unparseable" THEN Raise(resp.body.val)
    ELSE Ok(resp.body)

\* the first outcome of a sequence that raised, or the last one
RECURSIVE FirstExc(_)
FirstExc(rs) ==
    IF Len(rs) = 1 \/ Head(rs).exc # "none" THEN Head(rs) ELSE FirstExc(Tail(rs))

CommaBrazil == <<",", " ", "B", "r", "a", "z", "i", "l">>

get_city_name_from_ibge(resp) ==
    LET data == Fetch(resp)
        city_name == GetE(data, "nome", None)
        state_uf == GetE(GetE(GetE(GetE(data, "microrregiao", EmptyDict),
                         "mesorregiao", EmptyDict), "UF", EmptyDict), "sigla", None)
        tried == FirstExc(<<data, city_name, state_uf>>)
    IN  IF tried.exc = "none"
        THEN IF Truthy(city_name.val) /\ Truthy(state_uf.val)
             THEN Ok(PyStr(Str(city_name.val) \o <<",", " ">> \o Str(state_uf.val)
                           \o CommaBrazil))
             ELSE Ok(None)
        ELSE IF IsRequestException(tried.exc) THEN Ok(None)
        ELSE IF IsJSONDecodeError(tried.exc) THEN Ok(None)
        ELSE tried

get_lat_lng(resp) ==
    LET data == Fetch(resp)
        results == GetE(data, "results", PyList(<<>>))
        location == ItemE(ItemE(FirstE(results), "geometry"), "location")
        lat == ItemE(location, "lat")
        lng == ItemE(location, "lng")
        tried == IF results.exc = "none" /\ ~Truthy(results.val)
                 THEN results
                 ELSE FirstExc(<<data, results, location, lat, lng>>)
    IN  IF tried.exc = "none"
        THEN IF Truthy(results.val)
             THEN Ok(PyTuple(<<lat.val, lng.val>>))
             ELSE Ok(PyTuple(<<None, None>>))
        ELSE IF IsRequestException(tried.exc) THEN Ok(PyTuple(<<None, None>>))
        ELSE tried

format_duration(duration_str) ==
    IF ~Truthy(duration_str)
    THEN Ok(PyStr(<<"0", "h", " ", "0", "m", "i", "n">>))
    ELSE IF duration_str.kind # "str" THEN Raise("AttributeError")
    ELSE LET digits == Remove(duration_str.val, <<"s">>)
         IN  IF ~IsDecimal(digits) THEN Raise("ValueError")
             ELSE LET seconds == DecimalVal(digits)
                      hours == seconds \div 3600
                      minutes == (seconds % 3600) \div 60
                  IN  Ok(PyStr(NumStr(hours) \o <<"h", " ">> \o NumStr(minutes)
                               \o <<"m", "i", "n">>))

\* ---------------------------------------------------- Result records
\* A Result is the dict process_fiscal_code returns: a function from the
\* column names to values; a key the dict lacks is not in its domain.
K_INPUT == "Domicilio Fiscal (Entrada)"
K_CITY == "Cidade Resolvida"
K_STATUS == "Status"
K_DIST == "Distancia (km)"
K_DUR == "Duracao Viagem"
K_TOLL == "Custo Pedagio"
K_CUR == "Moeda Pedagio"
MetricKeys == {K_DIST, K_DUR, K_TOLL, K_CUR}

InvalidFormat == "Formato de entrada inválido"
RegionNotFound == "Código IBGE não encontrado"
GeocodeError == "Erro na Geocodificação Google"
RouteLookupError == "Erro de API de Rotas"
NoRouteFound == "Nenhuma rota encontrada"
Success == "Sucesso"

Failure(fiscal_code, status) ==
    (K_INPUT :> PyStr(fiscal_code)) @@ (K_STATUS :> status)
Partial(fiscal_code, resolved_address, status) ==
    (K_INPUT :> PyStr(fiscal_code)) @@ (K_CITY :> resolved_address)
        @@ (K_STATUS :> status)

\* round(x / 1000, 2), in hundredths of a kilometre.  A quotient halfway
\* between two hundredths is rounded by its binary value; of the distances
\* the services answer here only 12345 is one, and round gives 12.35.
DistanceKm(v) ==
    IF v.kind # "num" THEN Raise("TypeError")
    ELSE Ok(PyFloat((v.val + 5) \div 10))

\* float(x)
ToFloat(v) ==
    CASE v.kind = "num" -> Ok(PyFloat(100 * v.val))
      [] v.kind = "str" ->
            IF IsDecimal(v.val) THEN Ok(PyFloat(100 * DecimalVal(v.val)))
            ELSE Raise("ValueError")
      [] OTHER -> Raise("TypeError")

NotAvailable == PyStr(<<"N", "/", "A">>)

\* ------------------------------------- process_fiscal_code, by stages
\* Each stage ends in one of: the pipeline goes on (kind "next", with the
\* value the stage computed), the function returns a Result (kind
\* "return"), or an exception leaves the function (kind "raise").
GoOn(v) == [kind |-> "next", val |-> v]
Return(result) == [kind |-> "return", val |-> result]
Escape(e) == [kind |-> "raise", val |-> e]

\* mutant: only a text of fewer than two tokens is refused
ParsingAcceptsMore(fiscal_code) ==
    LET parts == Split(Strip(fiscal_code))
    IN  IF Len(parts) < 2
        THEN Return(Failure(fiscal_code, InvalidFormat))
        ELSE GoOn(PyStr(parts[2]))

\* mutant: the Result of a malformed text is tagged with the stripped text
ParsingTagsStripped(fiscal_code) ==
    LET parts == Split(Strip(fiscal_code))
    IN  IF Len(parts) # 2
        THEN Return(Failure(Strip(fiscal_code), InvalidFormat))
        ELSE GoOn(PyStr(parts[2]))

\* lines 88-93
Parsing(fiscal_code) ==
    LET parts == Split(Strip(fiscal_code))
    IN  IF Len(parts) # 2
        THEN Return(Failure(fiscal_code, InvalidFormat))
        ELSE GoOn(PyStr(parts[2]))

\* mutant: the pipeline goes on to the geocoding without an address
RegionLookupGoesOn(fiscal_code, resp) ==
    LET resolved_address == get_city_name_from_ibge(resp)
    IN  IF resolved_address.exc # "none" THEN Escape(resolved_address.exc)
        ELSE GoOn(resolved_address.val)

\* lines 95-97
RegionLookup(fiscal_code, resp) ==
    LET resolved_address == get_city_name_from_ibge(resp)
    IN  IF resolved_address.exc # "none" THEN Escape(resolved_address.exc)
        ELSE IF ~Truthy(resolved_address.val)
        THEN Return(Failure(fiscal_code, RegionNotFound))
        ELSE GoOn(resolved_address.val)

\* mutant: the Result of a failed geocoding leaves the resolved address out
GeocodingDropsAddress(fiscal_code, resolved_address, resp) ==
    LET dest == get_lat_lng(resp)
    IN  IF dest.exc # "none" THEN Escape(dest.exc)
        ELSE IF ~Truthy(dest.val.val[1]) \/ ~Truthy(dest.val.val[2])
        THEN Return(Failure(fiscal_code, GeocodeError))
        ELSE GoOn(dest.val)

\* mutant: only a missing coordinate is refused, zero is accepted
GeocodingAcceptsZero(fiscal_code, resolved_address, resp) ==
    LET dest == get_lat_lng(resp)
    IN  IF dest.exc # "none" THEN Escape(dest.exc)
        ELSE IF dest.val.val[1] = None \/ dest.val.val[2] = None
        THEN Return(Partial(fiscal_code, resolved_address, GeocodeError))
        ELSE GoOn(dest.val)

\* lines 99-101
Geocoding(fiscal_code, resolved_address, resp) ==
    LET dest == get_lat_lng(resp)
    IN  IF dest.exc # "none" THEN Escape(dest.exc)
        ELSE IF ~Truthy(dest.val.val[1]) \/ ~Truthy(dest.val.val[2])
        THEN Return(Partial(fiscal_code, resolved_address, GeocodeError))
        ELSE GoOn(dest.val)

\* lines 111-131
RouteLookup(fiscal_code, resolved_address, resp) ==
    LET data == Fetch(resp)
        route == FirstE(GetE(data, "routes", PyList(<<EmptyDict>>)))
        meters == GetE(route, "distanceMeters", PyNum(0))
        distance == IF meters.exc # "none" THEN meters ELSE DistanceKm(meters.val)
        duration_str == GetE(route, "duration", None)
        duration == IF duration_str.exc # "none" THEN duration_str
                    ELSE format_duration(duration_str.val)
        price == FirstE(GetE(GetE(GetE(route, "travelAdvisory", EmptyDict),
                        "tollInfo", EmptyDict), "estimatedPrice", PyList(<<EmptyDict>>)))
        units == GetE(price, "units", PyNum(0))
        cost == IF units.exc # "none" THEN units ELSE ToFloat(units.val)
        currency == GetE(price, "currencyCode", NotAvailable)
        tried == FirstExc(<<data, route, distance, duration, cost, currency>>)
    IN  IF tried.exc = "none"
        THEN Return((K_INPUT :> PyStr(fiscal_code))
                 @@ (K_CITY :> PyStr(Remove(resolved_address.val, CommaBrazil)))
                 @@ (K_STATUS :> Success)
                 @@ (K_DIST :> distance.val)
                 @@ (K_DUR :> duration.val)
                 @@ (K_TOLL :> cost.val)
                 @@ (K_CUR :> currency.val))
        ELSE IF IsRequestException(tried.exc)
        THEN Return(Partial(fiscal_code, resolved_address, RouteLookupError))
        ELSE IF tried.exc \in {"IndexError", "KeyError"}
        THEN Return(Partial(fiscal_code, resolved_address, NoRouteFound))
        ELSE Escape(tried.exc)

\* ------------------------------------------- what the services answer
Obj1(k, v) == PyDict(k :> v)
City == PyStr(<<"X">>)
UF == PyStr(<<"M", "A">>)
Micro(uf) == Obj1("microrregiao", Obj1("mesorregiao", Obj1("UF", uf)))
Named(nome, rest) == PyDict(("nome" :> nome) @@ rest.val)

IbgeGood == Http(200, Named(City, Micro(Obj1("sigla", UF))))
IbgeBodies ==
    { PyList(<<>>),                                  \* the answer to an unknown code
      EmptyDict,
      Micro(Obj1("sigla", UF)),                      \* no nome
      Named(PyStr(<<>>), Micro(Obj1("sigla", UF))),  \* empty nome
      Named(City, EmptyDict),                        \* no microrregiao
      Named(City, Obj1("microrregiao", None)),
      Named(City, Obj1("microrregiao", Obj1("mesorregiao", None))),
      Named(City, Micro(None)),
      Named(City, Micro(EmptyDict)),                 \* no sigla
      Named(City, Micro(Obj1("sigla", None))) }

Failures ==
    { RequestFailed, Http(404, EmptyDict),
      Http(200, Unparseable("RequestsJSONDecodeError")),
      Http(200, Unparseable("JSONDecodeError")) }

IbgeResponses == {IbgeGood} \cup Failures \cup {Http(200, b) : b \in IbgeBodies}

Located(loc) == Obj1("results", PyList(<<Obj1("geometry", Obj1("location", loc))>>))
LatLng(lat, lng) == PyDict(("lat" :> lat) @@ ("lng" :> lng))

GeoGood == Http(200, Located(LatLng(PyNum(7), PyNum(9))))
\* a first candidate with both coordinates, one of them on the equator or
\* the prime meridian
GeoOnAxis ==
    { Http(200, Located(LatLng(PyNum(0), PyNum(9)))),
      Http(200, Located(LatLng(PyNum(7), PyNum(0)))) }
GeoBodies ==
    { Obj1("results", PyList(<<>>)),                 \* ZERO_RESULTS
      EmptyDict,                                     \* no results key
      Obj1("results", None),
      PyList(<<>>),
      Obj1("results", PyList(<<EmptyDict>>)),        \* candidate without geometry
      Located(Obj1("lat", PyNum(7))),                \* no lng
      Located(LatLng(None, PyNum(9))) }

GeoResponses ==
    {GeoGood} \cup GeoOnAxis \cup Failures \cup {Http(200, b) : b \in GeoBodies}

Routes(route) == Obj1("routes", PyList(<<route>>))
Toll(info) == Obj1("travelAdvisory", Obj1("tollInfo", info))
Priced(price) == Toll(Obj1("estimatedPrice", PyList(<<price>>)))
Route(meters, duration, advisory) ==
    PyDict(("distanceMeters" :> meters) @@ ("duration" :> duration) @@ advisory.val)
BRL == PyStr(<<"B", "R", "L">>)
Secs5400 == PyStr(<<"5", "4", "0", "0", "s">>)
Price12 == PyDict(("currencyCode" :> BRL) @@ ("units" :> PyStr(<<"1", "2">>)))

RouteGood == Http(200, Routes(Route(PyNum(12345), Secs5400, Priced(Price12))))
\* a first candidate whose fields, where present, have the documented shape
RouteFound ==
    { RouteGood,
      Http(200, Routes(EmptyDict)),
      Http(200, Routes(Route(PyNum(812), PyStr(<<"5", "9", "s">>), EmptyDict))),
      Http(200, Routes(Route(PyNum(812), Secs5400, Toll(EmptyDict)))),
      Http(200, Routes(Route(PyNum(812), Secs5400, Priced(Obj1("currencyCode", BRL))))) }
\* a JSON object without a candidate
RouteNone == { Http(200, EmptyDict), Http(200, Obj1("routes", PyList(<<>>))) }
RouteBodies ==
    { Obj1("routes", None),
      PyList(<<>>),
      Routes(Route(PyNum(812), Secs5400, Toll(Obj1("estimatedPrice", PyList(<<>>))))),
      Routes(Route(PyNum(812), Secs5400, Obj1("travelAdvisory", None))),
      Routes(Route(PyNum(812), Secs5400, Toll(None))),
      Routes(Route(PyNum(812), PyStr(<<"1", "h">>), Priced(Price12))),
      Routes(Route(PyNum(812), PyStr(<<"s">>), Priced(Price12))),
      Routes(Route(PyNum(812), PyNum(59), Priced(Price12))),
      Routes(Route(None, Secs5400, Priced(Price12))),
      Routes(Route(PyNum(812), Secs5400,
                   Priced(PyDict(("currencyCode" :> BRL) @@ ("units" :> PyStr(<<"x">>)))))),
      Routes(Route(PyNum(812), Secs5400,
                   Priced(PyDict(("currencyCode" :> BRL) @@ ("units" :> None))))) }

RouteResponses ==
    RouteFound \cup RouteNone \cup Failures \cup {Http(200, b) : b \in RouteBodies}

\* ----------------------------------------------------------- the input
Chars == {"x", " "}
RECURSIVE TextsOfLen(_)
TextsOfLen(n) ==
    IF n = 0 THEN {<<>>}
    ELSE {<<c>> \o t : c \in Chars, t \in TextsOfLen(n - 1)}
Texts == UNION {TextsOfLen(n) : n \in 0..MaxLen}

\* One item of the input list and what the three services answer when the
\* pipeline of that item calls them.
Item(text, ibge, geo, route) ==
    [text |-> text, ibge |-> ibge, geo |-> geo, route |-> route]

\* every text; one service at a time departs from its good answer
ItemWorlds ==
    {Item(t, a, GeoGood, RouteGood) : t \in Texts, a \in IbgeResponses}
    \cup {Item(t, IbgeGood, g, RouteGood) : t \in Texts, g \in GeoResponses}
    \cup {Item(t, IbgeGood, GeoGood, r) : t \in Texts, r \in RouteResponses}

\* the items of a batch: a success, a malformed text and an unknown code
\* (the region service answers [])
BatchItems ==
    { Item(<<"x", " ", "x">>, IbgeGood, GeoGood, RouteGood),
      Item(<<" ", "x">>, IbgeGood, GeoGood, RouteGood),
      Item(<<"x", " ", "x", " ">>, Http(200, PyList(<<>>)), GeoGood, RouteGood) }

RECURSIVE ListsOfLen(_)
ListsOfLen(n) ==
    IF n = 0 THEN {<<>>}
    ELSE {<<b>> \o l : b \in BatchItems, l \in ListsOfLen(n - 1)}
Batches == UNION {ListsOfLen(n) : n \in 0..NumItems}

\* ------------------------------------------------------------ state
VARIABLES
    input,              \* the input list, each item with its services' answers
    mainpc,             \* where main() is
    mainexc,            \* the exception unwinding main(), or "none"
    origin,             \* (origin_lat, origin_lng) once found
    destination_codes,  \* the texts read from the input file
    futures,            \* futures[i]: state and outcome of item i's call
    work_queue,         \* the executor's queue of submitted items, FIFO
    threads,            \* worker threads the executor has started
    idle_semaphore,     \* the executor's count of workers that finished an item
    shutdown,           \* the executor was shut down
    worker,             \* worker[t]: what thread t is doing, with its locals
    thread_local,       \* thread_local[t]: the session of thread t, 0 if none
    sessions,           \* sessions[t]: requests.Session objects thread t created
    snapshot,           \* finished before as_completed started, not yet yielded
    waiting,            \* finished since, in that order, not yet yielded
    pending,            \* not finished when as_completed started, not yet yielded
    all_results,        \* the list main() gathers
    written,            \* the collections handed to to_excel
    calls               \* calls[i]: requests sent for item i (0: the origin)

vars == <<input, mainpc, mainexc, origin, destination_codes, futures, work_queue,
          threads, idle_semaphore, shutdown, worker, thread_local, sessions,
          snapshot, waiting, pending, all_results, written, calls>>

MainThread == 0
\* thread ids: a submit starts at most one thread, so no run needs more ids
\* than it has items; the pool's limit is enforced by Submit, not by this set
Workers == 1..(IF NumItems > MAX_WORKERS THEN NumItems ELSE MAX_WORKERS)
Threads == {MainThread} \cup Workers
Idle == [pc |-> "unborn", item |-> 0, ibge_code |-> None, resolved_address |-> None,
         dest |-> None]

InitWith(list) ==
    /\ input = list
    /\ mainpc = "origin"
    /\ mainexc = "none"
    /\ origin = None
    /\ destination_codes = <<>>
    /\ futures = <<>>
    /\ work_queue = <<>>
    /\ threads = 0
    /\ idle_semaphore = 0
    /\ shutdown = FALSE
    /\ worker = [t \in Workers |-> Idle]
    /\ thread_local = [t \in Threads |-> 0]
    /\ sessions = [t \in Threads |-> 0]
    /\ snapshot = {}
    /\ waiting = <<>>
    /\ pending = {}
    /\ all_results = <<>>
    /\ written = <<>>
    /\ calls = [i \in 0..Len(list) |-> <<>>]

\* a batch of up to NumItems items
Init == \E list \in Batches : InitWith(list)
\* a batch of one item, of any text
InitItem == \E it \in ItemWorlds : InitWith(<<it>>)

\* ------------------------------------------------------- get_session
\* mutant: every call creates a session
get_session_creates(t) == sessions[t] + 1

\* lines 26-29.  A session is known by the thread that created it and its
\* rank among that thread's sessions; thread_local[t] holds the rank.
get_session(t) == IF thread_local[t] = 0 THEN sessions[t] + 1 ELSE thread_local[t]
AcquireSession(t) ==
    /\ thread_local' = [thread_local EXCEPT ![t] = get_session(t)]
    /\ sessions' = [sessions EXCEPT ![t] = IF get_session(t) > @ THEN @ + 1 ELSE @]

Call(i, service) == calls' = [calls EXCEPT ![i] = Append(@, service)]

\* ------------------------------------------------------------- main()
\* mutant: main goes on when the origin was not found
GeocodeOriginGoesOn ==
    /\ mainpc = "origin"
    /\ AcquireSession(MainThread)
    /\ Call(0, "geocode")
    /\ \E resp \in GeoResponses :
          LET found == get_lat_lng(resp)
          IN  IF found.exc # "none"
              THEN /\ mainexc' = found.exc
                   /\ mainpc' = "crashed"
                   /\ origin' = origin
              ELSE IF ~Truthy(found.val.val[1]) \/ ~Truthy(found.val.val[2])
              THEN /\ mainpc' = "read"
                   /\ origin' = found.val
                   /\ mainexc' = mainexc
              ELSE /\ mainpc' = "read"
                   /\ origin' = found.val
                   /\ mainexc' = mainexc
    /\ UNCHANGED <<input, destination_codes, futures, work_queue, threads, idle_semaphore,
                   shutdown, worker, snapshot, waiting, pending, all_results, written>>

\* lines 142-147: the origin is geocoded; without it main returns
GeocodeOrigin ==
    /\ mainpc = "origin"
    /\ AcquireSession(MainThread)
    /\ Call(0, "geocode")
    /\ \E resp \in GeoResponses :
          LET found == get_lat_lng(resp)
          IN  IF found.exc # "none"
              THEN /\ mainexc' = found.exc
                   /\ mainpc' = "crashed"
                   /\ origin' = origin
              ELSE IF ~Truthy(found.val.val[1]) \/ ~Truthy(found.val.val[2])
              THEN /\ mainpc' = "done"
                   /\ UNCHANGED <<mainexc, origin>>
              ELSE /\ mainpc' = "read"
                   /\ origin' = found.val
                   /\ mainexc' = mainexc
    /\ UNCHANGED <<input, destination_codes, futures, work_queue, threads, idle_semaphore,
                   shutdown, worker, snapshot, waiting, pending, all_results, written>>

\* lines 151-167: the input file is read, or main returns; line 172 then
\* creates the executor
ReadInput ==
    /\ mainpc = "read"
    /\ \E readable \in BOOLEAN :
          IF readable
          THEN /\ destination_codes' = [i \in 1..Len(input) |-> input[i].text]
               /\ mainpc' = IF input = <<>> THEN "as_completed" ELSE "submit"
          ELSE /\ mainpc' = "done"
               /\ UNCHANGED destination_codes
    /\ UNCHANGED <<input, mainexc, origin, futures, work_queue, threads, idle_semaphore,
                   shutdown, worker, thread_local, sessions, snapshot, waiting,
                   pending, all_results, written, calls>>

\* mutant: the executor is created without a thread limit of its own
max_workers_unbounded == NumItems + MAX_WORKERS

\* the executor's thread limit (line 172)
max_workers == MAX_WORKERS

NewFuture == [state |-> "PENDING", exc |-> "none", val |-> None]

\* line 176, one executor.submit: the item is queued; a thread is started
\* unless a worker has reported itself idle (the executor's idle semaphore,
\* Python 3.8 and later) or the pool is full
Submit ==
    /\ mainpc = "submit"
    /\ futures' = Append(futures, NewFuture)
    /\ work_queue' = Append(work_queue, Len(futures) + 1)
    /\ IF idle_semaphore > 0
       THEN /\ idle_semaphore' = idle_semaphore - 1
            /\ UNCHANGED <<threads, worker>>
       ELSE IF threads < max_workers
       THEN /\ threads' = threads + 1
            /\ worker' = [worker EXCEPT ![threads + 1].pc = "get"]
            /\ UNCHANGED idle_semaphore
       ELSE UNCHANGED <<threads, worker, idle_semaphore>>
    /\ mainpc' = IF Len(futures) + 1 = Len(destination_codes) THEN "as_completed"
                 ELSE "submit"
    /\ UNCHANGED <<input, mainexc, origin, destination_codes, shutdown, thread_local,
                   sessions, snapshot, waiting, pending, all_results, written, calls>>

Finished == {i \in 1..Len(futures) : futures[i].state = "FINISHED"}

\* line 182, as_completed is entered: the futures already finished are set
\* apart, to be yielded first in no particular order; the others will be
\* yielded in the order they finish
AsCompleted ==
    /\ mainpc = "as_completed"
    /\ snapshot' = Finished
    /\ pending' = (1..Len(futures)) \ Finished
    /\ mainpc' = "collect"
    /\ UNCHANGED <<input, mainexc, origin, destination_codes, futures, work_queue, threads,
                   idle_semaphore, shutdown, worker, thread_local, sessions, waiting,
                   all_results, written, calls>>

\* mutant: the futures are waited for one by one in the order of submission
YieldableInOrder ==
    LET left == snapshot \cup pending
        first == CHOOSE i \in left : \A j \in left : i <= j
    IN  IF left # {} /\ first \in Finished THEN {first} ELSE {}

\* the futures as_completed may yield next
Yieldable ==
    IF snapshot # {} THEN snapshot
    ELSE IF waiting # <<>> THEN {Head(waiting)} ELSE {}

\* mutant: only the Results of successful items are appended
CollectKeepsSuccessOnly ==
    /\ mainpc = "collect"
    /\ \E i \in Yieldable :
          /\ snapshot' = snapshot \ {i}
          /\ waiting' = IF snapshot # {} THEN waiting ELSE Tail(waiting)
          /\ pending' = pending \ {i}
          /\ IF futures[i].exc = "none"
             THEN /\ all_results' = IF futures[i].val[K_STATUS] = Success
                                    THEN Append(all_results, futures[i].val)
                                    ELSE all_results
                  /\ UNCHANGED <<mainpc, mainexc>>
             ELSE /\ mainexc' = futures[i].exc
                  /\ mainpc' = "shutdown"
                  /\ UNCHANGED all_results
    /\ UNCHANGED <<input, origin, destination_codes, futures, work_queue, threads,
                   idle_semaphore, shutdown, worker, thread_local, sessions, written,
                   calls>>

\* lines 182-191, one iteration: future.result() returns the Result, which
\* is appended, or raises what the call raised, which leaves the with block
Collect ==
    /\ mainpc = "collect"
    /\ \E i \in Yieldable :
          /\ snapshot' = snapshot \ {i}
          /\ waiting' = IF snapshot # {} THEN waiting ELSE Tail(waiting)
          /\ pending' = pending \ {i}
          /\ IF futures[i].exc = "none"
             THEN /\ all_results' = Append(all_results, futures[i].val)
                  /\ UNCHANGED <<mainpc, mainexc>>
             ELSE /\ mainexc' = futures[i].exc
                  /\ mainpc' = "shutdown"
                  /\ UNCHANGED all_results
    /\ UNCHANGED <<input, origin, destination_codes, futures, work_queue, threads,
                   idle_semaphore, shutdown, worker, thread_local, sessions, written,
                   calls>>

\* line 193: every future was yielded, the loop ends
EndCollect ==
    /\ mainpc = "collect"
    /\ snapshot = {}
    /\ pending = {}
    /\ mainpc' = "shutdown"
    /\ UNCHANGED <<input, mainexc, origin, destination_codes, futures, work_queue, threads,
                   idle_semaphore, shutdown, worker, thread_local, sessions, snapshot,
                   waiting, pending, all_results, written, calls>>

\* mutant: shutdown drops the items still queued
ShutdownCancels ==
    /\ mainpc = "shutdown"
    /\ shutdown' = TRUE
    /\ work_queue' = <<>>
    /\ mainpc' = "join"
    /\ UNCHANGED <<input, mainexc, origin, destination_codes, futures, threads,
                   idle_semaphore, worker, thread_local, sessions, snapshot, waiting,
                   pending, all_results, written, calls>>

\* the with block of line 172 is left: executor.shutdown(wait=True)
Shutdown ==
    /\ mainpc = "shutdown"
    /\ shutdown' = TRUE
    /\ mainpc' = "join"
    /\ UNCHANGED <<input, mainexc, origin, destination_codes, futures, work_queue, threads,
                   idle_semaphore, worker, thread_local, sessions, snapshot, waiting,
                   pending, all_results, written, calls>>

\* shutdown joins the worker threads; an exception that left the loop then
\* leaves main
Join ==
    /\ mainpc = "join"
    /\ \A t \in Workers : worker[t].pc \in {"unborn", "exited"}
    /\ mainpc' = IF mainexc = "none" THEN "save" ELSE "crashed"
    /\ UNCHANGED <<input, mainexc, origin, destination_codes, futures, work_queue, threads,
                   idle_semaphore, shutdown, worker, thread_local, sessions, snapshot,
                   waiting, pending, all_results, written, calls>>

\* mutant: the collection is written even when it is empty
SaveAlways ==
    /\ mainpc = "save"
    /\ written' = Append(written, all_results)
    /\ mainpc' = "done"
    /\ UNCHANGED <<input, mainexc, origin, destination_codes, futures, work_queue, threads,
                   idle_semaphore, shutdown, worker, thread_local, sessions, snapshot,
                   waiting, pending, all_results, calls>>

\* lines 196-204: a non-empty collection is written
Save ==
    /\ mainpc = "save"
    /\ written' = IF all_results # <<>> THEN Append(written, all_results) ELSE written
    /\ mainpc' = "done"
    /\ UNCHANGED <<input, mainexc, origin, destination_codes, futures, work_queue, threads,
                   idle_semaphore, shutdown, worker, thread_local, sessions, snapshot,
                   waiting, pending, all_results, calls>>

\* --------------------------------------------------- worker threads
\* mutant: a worker thread ends after its first item instead of going back
\* to the queue
StepWorkerQuits(t, i, out, nextpc, local) ==
    IF out.kind = "next"
    THEN /\ worker' = [worker EXCEPT ![t].pc = nextpc, ![t].item = i, ![t][local] = out.val]
         /\ futures' = [futures EXCEPT ![i].state = "RUNNING"]
         /\ UNCHANGED <<waiting, idle_semaphore>>
    ELSE /\ futures' = [futures EXCEPT ![i] =
                [state |-> "FINISHED",
                 exc |-> IF out.kind = "raise" THEN out.val ELSE "none",
                 val |-> IF out.kind = "return" THEN out.val ELSE None]]
         /\ waiting' = IF mainpc = "collect" THEN Append(waiting, i) ELSE waiting
         /\ idle_semaphore' = idle_semaphore + 1
         /\ worker' = [worker EXCEPT ![t] = [Idle EXCEPT !.pc = "exited"]]

\* The end of one stage of item i on thread t.  The pipeline goes on to the
\* next stage keeping the stage's value in a local, or the call ends: the
\* future takes the Result or the exception, as_completed (if it has
\* started and not been left) is told, and the worker reports itself idle
\* and goes back to the queue.
Step(t, i, out, nextpc, local) ==
    IF out.kind = "next"
    THEN /\ worker' = [worker EXCEPT ![t].pc = nextpc, ![t].item = i, ![t][local] = out.val]
         /\ futures' = [futures EXCEPT ![i].state = "RUNNING"]
         /\ UNCHANGED <<waiting, idle_semaphore>>
    ELSE /\ futures' = [futures EXCEPT ![i] =
                [state |-> "FINISHED",
                 exc |-> IF out.kind = "raise" THEN out.val ELSE "none",
                 val |-> IF out.kind = "return" THEN out.val ELSE None]]
         /\ waiting' = IF mainpc = "collect" THEN Append(waiting, i) ELSE waiting
         /\ idle_semaphore' = idle_semaphore + 1
         /\ worker' = [worker EXCEPT ![t] = [Idle EXCEPT !.pc = "get"]]

\* a worker takes the oldest queued item and starts its call, lines 80-93:
\* the function runs up to its first request
Start(t) ==
    /\ worker[t].pc = "get"
    /\ work_queue # <<>>
    /\ work_queue' = Tail(work_queue)
    /\ AcquireSession(t)
    /\ Step(t, Head(work_queue), Parsing(destination_codes[Head(work_queue)]),
            "RegionLookup", "ibge_code")
    /\ UNCHANGED <<input, mainpc, mainexc, origin, destination_codes, threads, shutdown,
                   snapshot, pending, all_results, written, calls>>

\* after shutdown a worker that finds the queue empty ends
WorkerExit(t) ==
    /\ worker[t].pc = "get"
    /\ work_queue = <<>>
    /\ shutdown
    /\ worker' = [worker EXCEPT ![t].pc = "exited"]
    /\ UNCHANGED <<input, mainpc, mainexc, origin, destination_codes, futures, work_queue,
                   threads, idle_semaphore, shutdown, thread_local, sessions, snapshot,
                   waiting, pending, all_results, written, calls>>

\* lines 95-97
Region(t) ==
    /\ worker[t].pc = "RegionLookup"
    /\ Call(worker[t].item, "ibge")
    /\ Step(t, worker[t].item,
            RegionLookup(destination_codes[worker[t].item], input[worker[t].item].ibge),
            "Geocoding", "resolved_address")
    /\ UNCHANGED <<input, mainpc, mainexc, origin, destination_codes, work_queue, threads,
                   shutdown, thread_local, sessions, snapshot, pending, all_results, written>>

\* lines 99-101
Geocode(t) ==
    /\ worker[t].pc = "Geocoding"
    /\ Call(worker[t].item, "geocode")
    /\ Step(t, worker[t].item,
            Geocoding(destination_codes[worker[t].item], worker[t].resolved_address,
                      input[worker[t].item].geo),
            "RouteLookup", "dest")
    /\ UNCHANGED <<input, mainpc, mainexc, origin, destination_codes, work_queue, threads,
                   shutdown, thread_local, sessions, snapshot, pending, all_results, written>>

\* lines 103-131
RouteCall(t) ==
    /\ worker[t].pc = "RouteLookup"
    /\ Call(worker[t].item, "routes")
    /\ Step(t, worker[t].item,
            RouteLookup(destination_codes[worker[t].item], worker[t].resolved_address,
                        input[worker[t].item].route),
            "RouteLookup", "dest")
    /\ UNCHANGED <<input, mainpc, mainexc, origin, destination_codes, work_queue, threads,
                   shutdown, thread_local, sessions, snapshot, pending, all_results, written>>

Next ==
    \/ GeocodeOrigin
    \/ ReadInput
    \/ Submit
    \/ AsCompleted
    \/ Collect
    \/ EndCollect
    \/ Shutdown
    \/ Join
    \/ Save
    \/ \E t \in Workers : Start(t)
    \/ \E t \in Workers : WorkerExit(t)
    \/ \E t \in Workers : Region(t)
    \/ \E t \in Workers : Geocode(t)
    \/ \E t \in Workers : RouteCall(t)

\* a batch of up to NumItems items on MAX_WORKERS workers
Spec == Init /\ [][Next]_vars
\* one item of any text, each service answering in any way
SpecItem == InitItem /\ [][Next]_vars

\* Fair scheduling.  Threads are operating system threads and every request
\* of the source carries a timeout: main's thread takes the step it can
\* take; a worker thread at the queue takes an item while there is one, or
\* ends after shutdown; a request a worker thread is about to send is sent
\* and answered.
MainNext ==
    \/ GeocodeOrigin
    \/ ReadInput
    \/ Submit
    \/ AsCompleted
    \/ Collect
    \/ EndCollect
    \/ Shutdown
    \/ Join
    \/ Save
\* the dequeue of Start(t)
Dequeue(t) ==
    /\ worker[t].pc = "get"
    /\ work_queue # <<>>
    /\ work_queue' = Tail(work_queue)
\* the request of Region(t), Geocode(t) or RouteCall(t)
Request(t) ==
    \/ worker[t].pc = "RegionLookup" /\ Call(worker[t].item, "ibge")
    \/ worker[t].pc = "Geocoding" /\ Call(worker[t].item, "geocode")
    \/ worker[t].pc = "RouteLookup" /\ Call(worker[t].item, "routes")
Fairness ==
    /\ WF_vars(MainNext)
    /\ \A t \in Workers :
          WF_work_queue(Dequeue(t)) /\ WF_vars(WorkerExit(t)) /\ WF_calls(Request(t))

\* The input lists of the fair specification: up to NumItems items, all but
\* the first resolved successfully; the first is any of the batch items (a
\* success, a malformed text, or the code whose pipeline raises), so that
\* a failure is there while later items are still queued or running.
GoodItem == Item(<<"x", " ", "x">>, IbgeGood, GeoGood, RouteGood)
FairBatches ==
    {<<>>} \cup {<<b>> \o [k \in 1..n |-> GoodItem] : b \in BatchItems, n \in 0..(NumItems - 1)}
FairInit == \E list \in FairBatches : InitWith(list)

\* such a batch on MAX_WORKERS workers under fair scheduling of the threads
FairSpec == FairInit /\ [][Next]_vars /\ Fairness

\* ================================================================ claims
Items == 1..Len(futures)
Result(i) == futures[i].val
Returned(i) == futures[i].state = "FINISHED" /\ futures[i].exc = "none"
Running == {i \in Items : futures[i].state = "RUNNING"}
\* main got past the aggregation loop and the executor and reached the output
Completed == mainpc = "save" \/ (mainpc = "done" /\ shutdown)
Count(seq, x) == Cardinality({k \in 1..Len(seq) : seq[k] = x})
Range(seq) == {seq[k] : k \in 1..Len(seq)}

\* C1: whatever the services answer, every call of process_fiscal_code ends
\* with a Result that carries a status and never with an exception, so that
\* future.result() never raises in the aggregation loop of main.
C1_EveryFailureIsAResult ==
    /\ \A i \in Items :
          futures[i].state = "FINISHED" =>
              futures[i].exc = "none" /\ K_STATUS \in DOMAIN Result(i)
    /\ mainpc \in {"collect", "shutdown", "join", "save"} => mainexc = "none"

\* C2: when the run completes, all_results holds exactly one Result for each
\* submitted item: as many Results as items, and each item's Result as
\* often as items produced it.
C2_OneResultPerItem ==
    Completed =>
        /\ Len(all_results) = Len(input)
        /\ Len(futures) = Len(input)
        /\ \A i \in Items :
              /\ Returned(i)
              /\ Count(all_results, Result(i)) = Count([j \in Items |-> Result(j)], Result(i))

\* C2 witness: a completed run of NumItems items of which the third was
\* gathered before the first.
C2_Witness ==
    /\ Completed
    /\ Len(input) = NumItems
    /\ all_results[1] = Result(NumItems)
    /\ all_results[1] # Result(1)

\* C3: the calls of process_fiscal_code that have started and not ended
\* are never more than MAX_WORKERS.
C3_AtMostMaxWorkersActive == Cardinality(Running) <= MAX_WORKERS

\* C3 witness: the pool is full and an item waits in the queue.
C3_Witness == Cardinality(Running) = MAX_WORKERS /\ work_queue # <<>>

\* C4 as stated: once MAX_WORKERS pipelines are active, their number stays
\* at MAX_WORKERS for as long as items are queued.
C4_StaysAtMaxWorkers ==
    [][(Cardinality(Running) = MAX_WORKERS /\ work_queue # <<>>)
          => Cardinality(Running') = MAX_WORKERS]_vars

\* C4 as amended: at most MAX_WORKERS pipelines are active, and while items
\* are queued, either MAX_WORKERS pipelines are active or a worker thread is
\* at the queue, about to take the next item; a worker that ends a pipeline
\* goes back to the queue.
C4_NoIdleSlotWhileQueued ==
    /\ Cardinality(Running) <= MAX_WORKERS
    /\ work_queue # <<>> =>
          \/ Cardinality(Running) = MAX_WORKERS
          \/ \E t \in Workers : worker[t].pc = "get"

\* C4 witness: a pipeline has ended, an item is queued, and fewer than
\* MAX_WORKERS pipelines are active: the freed worker is at the queue.
C4_Witness ==
    /\ work_queue # <<>>
    /\ mainpc = "collect"
    /\ Finished # {}
    /\ Cardinality(Running) < MAX_WORKERS

Tags == [k \in 1..Len(all_results) |-> all_results[k][K_INPUT].val]
Texts_in == [k \in 1..Len(input) |-> input[k].text]

TokenCount(text) ==
    Cardinality({k \in 1..Len(text) : text[k] # " " /\ (k = 1 \/ text[k - 1] = " ")})

\* C6: an item whose text has not exactly two tokens is never in a stage
\* that calls a service, no request is sent for it, and its call ends with
\* the Result of status InvalidFormat.
C6_InvalidFormatWithoutCalls ==
    \A i \in Items :
        TokenCount(input[i].text) # 2 =>
            /\ calls[i] = <<>>
            /\ futures[i].state # "RUNNING"
            /\ futures[i].state = "FINISHED" =>
                  Returned(i) /\ Result(i)[K_STATUS] = InvalidFormat

\* C6 witness: the Result of a text of three tokens was gathered.
C6_Witness ==
    /\ Len(all_results) = 1
    /\ TokenCount(input[1].text) = 3
    /\ all_results[1][K_STATUS] = InvalidFormat

AllCalls == <<"ibge", "geocode", "routes">>

\* C7: an item of two tokens whose region is resolved, whose geocoding
\* answers with a coordinate pair and whose route request answers with a
\* route ends with status Success after the three calls, with the four
\* metrics present and not None.
C7_SuccessWithAllMetrics ==
    \A i \in Items :
        ( /\ futures[i].state = "FINISHED"
          /\ TokenCount(input[i].text) = 2
          /\ input[i].ibge = IbgeGood
          /\ input[i].geo \in {GeoGood} \cup GeoOnAxis
          /\ input[i].route \in RouteFound )
        => /\ Returned(i)
           /\ Result(i)[K_STATUS] = Success
           /\ calls[i] = AllCalls
           /\ \A k \in MetricKeys : k \in DOMAIN Result(i) /\ Result(i)[k] # None

GoodAddress == PyStr(<<"X", ",", " ", "M", "A", ",", " ", "B", "r", "a", "z", "i", "l">>)

\* C8: a Result holds what its pipeline had obtained when it ended.  Ended
\* in Parsing or RegionLookup: the input and the status only.  Ended in
\* Geocoding or RouteLookup without success: also the resolved address, no
\* metric.  The metrics are there exactly when the status is Success.
C8_FieldsUpToStageReached ==
    \A i \in Items :
        Returned(i) =>
            LET r == Result(i)
                status == r[K_STATUS]
            IN  /\ status = InvalidFormat => DOMAIN r = {K_INPUT, K_STATUS} /\ calls[i] = <<>>
                /\ status = RegionNotFound =>
                      DOMAIN r = {K_INPUT, K_STATUS} /\ calls[i] = <<"ibge">>
                /\ status = GeocodeError =>
                      /\ DOMAIN r = {K_INPUT, K_CITY, K_STATUS}
                      /\ r[K_CITY] = GoodAddress
                      /\ calls[i] = <<"ibge", "geocode">>
                /\ status \in {RouteLookupError, NoRouteFound} =>
                      /\ DOMAIN r = {K_INPUT, K_CITY, K_STATUS}
                      /\ r[K_CITY] = GoodAddress
                      /\ calls[i] = AllCalls
                /\ status = Success <=> MetricKeys \subseteq DOMAIN r
                /\ status # Success => MetricKeys \cap DOMAIN r = {}
                /\ status = Success => K_CITY \in DOMAIN r /\ calls[i] = AllCalls

\* C8 witness: a Result of status GeocodeError with the resolved address.
C8_Witness ==
    \E i \in Items :
        /\ Returned(i)
        /\ Result(i)[K_STATUS] = GeocodeError
        /\ K_CITY \in DOMAIN Result(i)

\* C9: when the route service answers with a JSON object that has no
\* candidate (routes empty, or no routes field), the Result has status
\* NoRouteFound and carries the resolved address.
C9_NoCandidateIsNoRouteFound ==
    \A i \in Items :
        (futures[i].state = "FINISHED" /\ calls[i] = AllCalls /\ input[i].route \in RouteNone)
        => /\ Returned(i)
           /\ Result(i)[K_STATUS] = NoRouteFound
           /\ K_CITY \in DOMAIN Result(i)
           /\ Truthy(Result(i)[K_CITY])

\* the request to the region service failed: no response, or an error status
RequestFailures == {RequestFailed, Http(404, EmptyDict)}

\* C10: a region lookup that failed ends the pipeline with one status when
\* the service reported no such region and with another when the request
\* itself failed.
C10_RegionFailuresDistinguished ==
    \A i \in Items :
        (Returned(i) /\ calls[i] = <<"ibge">>)
        => IF input[i].ibge \in RequestFailures
           THEN Result(i)[K_STATUS] # RegionNotFound
           ELSE Result(i)[K_STATUS] = RegionNotFound

\* the region service answered 2xx, but not with the fields of a municipality
IbgeMalformed ==
    {Http(200, b) : b \in IbgeBodies}
    \cup {Http(200, Unparseable("RequestsJSONDecodeError")),
          Http(200, Unparseable("JSONDecodeError"))}

\* C11: when the region service answers 2xx without the expected fields
\* (nome missing or empty, a level of microrregiao/mesorregiao/UF/sigla
\* missing or null, a body that is not an object, a body json() rejects),
\* get_city_name_from_ibge returns None and the pipeline ends with the
\* Result of status RegionNotFound after that one request.
C11_MalformedRegionIsNotFound ==
    \A i \in Items :
        ( /\ futures[i].state = "FINISHED"
          /\ calls[i] # <<>>
          /\ input[i].ibge \in IbgeMalformed )
        => /\ get_city_name_from_ibge(input[i].ibge) = Ok(None)
           /\ Returned(i)
           /\ Result(i)[K_STATUS] = RegionNotFound
           /\ calls[i] = <<"ibge">>

\* the route request failed: no response, an error status, or (requests
\* 2.27 and later) a body json() rejects
RouteRequestFailures ==
    RequestFailures \cup {Http(200, Unparseable("RequestsJSONDecodeError"))}

\* a route candidate whose toll or duration part has not the documented shape
TollOrDurationMalformed ==
    { Http(200, Routes(Route(PyNum(812), Secs5400, Toll(Obj1("estimatedPrice", PyList(<<>>)))))),
      Http(200, Routes(Route(PyNum(812), Secs5400, Obj1("travelAdvisory", None)))),
      Http(200, Routes(Route(PyNum(812), Secs5400, Toll(None)))),
      Http(200, Routes(Route(PyNum(812), PyStr(<<"1", "h">>), Priced(Price12)))),
      Http(200, Routes(Route(PyNum(812), PyStr(<<"s">>), Priced(Price12)))),
      Http(200, Routes(Route(PyNum(812), PyNum(59), Priced(Price12)))),
      Http(200, Routes(Route(PyNum(812), Secs5400,
                   Priced(PyDict(("currencyCode" :> BRL) @@ ("units" :> PyStr(<<"x">>))))))),
      Http(200, Routes(Route(PyNum(812), Secs5400,
                   Priced(PyDict(("currencyCode" :> BRL) @@ ("units" :> None)))))) }

\* C12: in the RouteLookup stage a failed request ends the pipeline with
\* the Result of status RouteLookupError, and a 2xx answer whose toll or
\* duration part is malformed ends it with the Result of status
\* NoRouteFound; neither raises, neither reports Success.
C12_RouteFailuresAreResults ==
    \A i \in Items :
        (futures[i].state = "FINISHED" /\ calls[i] = AllCalls)
        => /\ input[i].route \in RouteRequestFailures =>
                 Returned(i) /\ Result(i)[K_STATUS] = RouteLookupError
           /\ input[i].route \in TollOrDurationMalformed =>
                 Returned(i) /\ Result(i)[K_STATUS] = NoRouteFound

\* main holds both coordinates of the origin
OriginFound == origin # None /\ Truthy(origin.val[1]) /\ Truthy(origin.val[2])

\* C13: the origin is geocoded by one request, the first thing main does;
\* as long as, or if, it was not found there is no item read, no future,
\* no worker thread, no request for an item, and nothing gathered or
\* written, and main is at its start or has ended.
C13_OriginOnceBeforeDispatch ==
    /\ calls[0] = IF mainpc = "origin" THEN <<>> ELSE <<"geocode">>
    /\ ~OriginFound =>
          /\ mainpc \in {"origin", "done", "crashed"}
          /\ destination_codes = <<>>
          /\ futures = <<>> /\ work_queue = <<>>
          /\ threads = 0 /\ ~shutdown
          /\ \A t \in Workers : worker[t].pc = "unborn"
          /\ \A i \in 1..Len(input) : calls[i] = <<>>
          /\ all_results = <<>> /\ written = <<>>

\* C13 witness: main has ended after the one request for the origin found
\* no coordinates, with NumItems items waiting in the input.
C13_Witness ==
    /\ mainpc = "done"
    /\ ~OriginFound
    /\ calls[0] = <<"geocode">>
    /\ Len(input) = NumItems

\* the items whose call of process_fiscal_code has begun
Started == {i \in Items : futures[i].state # "PENDING"}

Ended(i) == i \in Items /\ futures[i].state = "FINISHED"
\* main has left the loop of lines 182-191
LoopOver ==
    \/ mainpc \in {"shutdown", "join", "save"}
    \/ mainpc \in {"done", "crashed"} /\ shutdown

\* C15: under fair scheduling every pipeline that has started ends, and
\* once main has read its input the aggregation loop is eventually over
\* with the Result of every item of the input in all_results.
C15_LoopConsumesEveryResult ==
    /\ \A i \in 1..NumItems : (i \in Running) ~> Ended(i)
    /\ (mainpc \in {"submit", "as_completed"}) ~>
          ( /\ LoopOver
            /\ Len(all_results) = Len(input)
            /\ \A i \in 1..Len(input) : Ended(i) /\ Count(all_results, Result(i)) >= 1 )

\* C17: every submitted item is begun and its call ends (from any state in
\* which items have been submitted, a state is reached in which the calls
\* of all of them have ended), whatever became of the other pipelines and
\* also after main left its loop on an exception: the executor's shutdown
\* lets the workers empty the queue, and main gets past the executor only
\* when every call has ended.
C17_EverySubmittedItemEnds ==
    /\ (Items # {}) ~> (\A i \in Items : Ended(i))
    /\ []((shutdown /\ mainpc \in {"save", "done", "crashed"}) =>
            \A i \in Items : Ended(i))

\* C17 witness: main has left the loop on the exception of one pipeline
\* while an item is still queued and another pipeline runs.
C17_Witness ==
    /\ mainpc = "join"
    /\ mainexc # "none"
    /\ work_queue # <<>>
    /\ Running # {}

\* what the answers of the services to item i amount to
RegionResolved(i) ==
    LET address == get_city_name_from_ibge(input[i].ibge)
    IN  address.exc = "none" /\ Truthy(address.val)
CoordinateFound(i) ==
    LET dest == get_lat_lng(input[i].geo)
    IN  dest.exc = "none" /\ Truthy(dest.val.val[1]) /\ Truthy(dest.val.val[2])
IsPrefix(s, t) == Len(s) <= Len(t) /\ s = SubSeq(t, 1, Len(s))
Stages == <<"RegionLookup", "Geocoding", "RouteLookup">>
\* the worker threads in a stage of item i
At(i) == {t \in Workers : worker[t].item = i /\ worker[t].pc \in Range(Stages)}

\* C16: the requests of one item are a prefix of region, geocoding, route
\* (in that order, none twice, three at most); the geocoding request is
\* sent only after the region lookup returned an address and the route
\* request only after the geocoding returned both coordinates; a running
\* pipeline is in one stage on one thread, the stage after its last
\* request; and a pipeline that has ended is in no stage any more.
C16_StagesInOrder ==
    \A i \in 1..Len(input) :
        /\ IsPrefix(calls[i], AllCalls)
        /\ Len(calls[i]) >= 1 => TokenCount(input[i].text) = 2
        /\ Len(calls[i]) >= 2 => RegionResolved(i)
        /\ Len(calls[i]) = 3 => CoordinateFound(i)
        /\ \A t \in At(i) :
              /\ worker[t].pc = Stages[Len(calls[i]) + 1]
              /\ worker[t].pc # "RegionLookup" => RegionResolved(i)
              /\ worker[t].pc = "RouteLookup" => CoordinateFound(i)
        /\ Cardinality(At(i)) = IF i \in Running THEN 1 ELSE 0

\* C16 witness: a pipeline has ended at its first failure, the region
\* lookup, after one request, and its thread is back at the queue.
C16_Witness ==
    /\ Ended(1)
    /\ TokenCount(input[1].text) = 2
    /\ ~RegionResolved(1)
    /\ calls[1] = <<"ibge">>
    /\ At(1) = {}

\* the futures that have finished and that the loop has not been given yet
Uncollected == snapshot \cup (pending \cap Finished)

C19_WrittenOnceAfterAll ==
    /\ Len(written) <= 1
    /\ written # <<>> =>
          /\ written[1] = all_results
          /\ shutdown
          /\ mainpc = "done"
          /\ \A t \in Workers : worker[t].pc \in {"unborn", "exited"}
          /\ Len(all_results) = Len(input)
          /\ \A i \in 1..Len(input) :
                Ended(i) /\ Returned(i) /\ Count(all_results, Result(i)) >= 1
    /\ (Running # {} \/ work_queue # <<>>) => written = <<>>
    /\ input = <<>> => written = <<>>

\* C19 witness: the Results of NumItems items have been written.
C19_Witness ==
    /\ Len(written) = 1
    /\ Len(written[1]) = NumItems

\* a component of the pair get_lat_lng returned is absent or exactly 0
Rejected(pair) == \E k \in 1..2 : pair.val[k] = None \/ pair.val[k] = PyNum(0)

\* C20: when get_lat_lng returns for an item a pair with a component absent
\* or exactly 0, the pipeline ends after the geocoding request with the
\* Result of status GeocodeError and the route request is not sent; a
\* pipeline is in the RouteLookup stage only with both coordinates present
\* and non-zero; and main goes on past the origin lookup only with such a
\* pair, and ends at once otherwise.
C20_AbsentOrZeroCoordinateRejected ==
    /\ \A i \in 1..Len(input) :
          LET dest == get_lat_lng(input[i].geo)
          IN  (Len(calls[i]) >= 2 /\ dest.exc = "none" /\ Rejected(dest.val)) =>
                  /\ calls[i] = <<"ibge", "geocode">>
                  /\ At(i) = {}
                  /\ Ended(i) /\ Returned(i)
                  /\ Result(i)[K_STATUS] = GeocodeError
    /\ \A t \in Workers :
          worker[t].pc = "RouteLookup" =>
              worker[t].dest.kind = "tuple" /\ ~Rejected(worker[t].dest)
    /\ origin # None => ~Rejected(origin)
    /\ origin = None => mainpc \in {"origin", "done", "crashed"} /\ futures = <<>>

\* C20 witness: a pipeline whose geocoding answered with a coordinate on
\* the equator or the prime meridian has ended with GeocodeError after two
\* requests.
C20_Witness ==
    /\ Ended(1)
    /\ Returned(1)
    /\ input[1].geo \in GeoOnAxis
    /\ Result(1)[K_STATUS] = GeocodeError
    /\ calls[1] = <<"ibge", "geocode">>

TypeOK ==
    /\ mainpc \in {"origin", "read", "submit", "as_completed", "collect", "shutdown",
                   "join", "save", "done", "crashed"}
    /\ threads \in 0..MAX_WORKERS
    /\ Len(futures) <= Len(input)

====
